---- MODULE Spec2Model ----
(***************************************************************************)
(* Orchestration core of the AgenticAI BI platform backend:                *)
(*   - HandoffManager (handoff_manager.py): the n8n workflow registry with *)
(*     its time-to-live cache, and the handoff records with their active   *)
(*     and history collections;                                            *)
(*   - N8nMCPClient (mcp_client.py): the catalog fetch and webhook calls;  *)
(*   - WorkflowOrchestrationEngine (workflow_orchestration_engine.py):     *)
(*     the workflow sequences.                                             *)
(* Route handlers are "async def" functions that call the synchronous      *)
(* manager methods, so one manager call runs without interleaving; a call  *)
(* that waits for a webhook response is split at that wait and blocks      *)
(* every other call meanwhile.                                             *)
(***************************************************************************)
EXTENDS Integers, Sequences, FiniteSets, TLC

(* ------------------------------ bounds -------------------------------- *)
\* longest catalog snapshot the external API returns
MaxCatalog == 2
\* number of handoff ids uuid4 hands out
MaxHandoffs == 1
\* number of clock advances
MaxTicks == 1

(* ------------------------- program constants -------------------------- *)
\* handoff_manager.py:54   cache time-to-live in seconds
TTL == 300
\* datetime.timedelta.seconds is the seconds field of the delta, 0..86399
SecondsPerDay == 86400

\* Python None for a timestamp
NoTime == -1
\* Python None / absent key for a string-valued field
NoValue == "none"

(* ----------------------------- strings -------------------------------- *)
\* TLC strings are atomic: Chars gives the characters of the workflow names
\* and keywords that occur in the model, so that lower() and "in" are computed.
Chars(s) ==
    CASE s = "Gerald Handoff" -> <<"G","e","r","a","l","d"," ","H","a","n","d","o","f","f">>
      [] s = "Home Automation Advisor" -> <<"H","o","m","e"," ","A","u","t","o","m","a","t","i","o","n"," ","A","d","v","i","s","o","r">>
      [] s = "Task Organizer" -> <<"T","a","s","k"," ","O","r","g","a","n","i","z","e","r">>
      [] s = "Document Upload" -> <<"D","o","c","u","m","e","n","t"," ","U","p","l","o","a","d">>
      [] s = "Customer Notification System" -> <<"C","u","s","t","o","m","e","r"," ","N","o","t","i","f","i","c","a","t","i","o","n"," ","S","y","s","t","e","m">>
      [] s = "Data Processing Pipeline" -> <<"D","a","t","a"," ","P","r","o","c","e","s","s","i","n","g"," ","P","i","p","e","l","i","n","e">>
      [] s = "Report Generation Workflow" -> <<"R","e","p","o","r","t"," ","G","e","n","e","r","a","t","i","o","n"," ","W","o","r","k","f","l","o","w">>
      [] s = "gerald" -> <<"g","e","r","a","l","d">>
      [] s = "handoff" -> <<"h","a","n","d","o","f","f">>
      [] s = "homeautomation" -> <<"h","o","m","e","a","u","t","o","m","a","t","i","o","n">>
      [] s = "home automation" -> <<"h","o","m","e"," ","a","u","t","o","m","a","t","i","o","n">>
      [] s = "data" -> <<"d","a","t","a">>
      [] s = "analysis" -> <<"a","n","a","l","y","s","i","s">>
      [] s = "insights" -> <<"i","n","s","i","g","h","t","s">>
      [] s = "metrics" -> <<"m","e","t","r","i","c","s">>
      [] s = "report" -> <<"r","e","p","o","r","t">>
      [] s = "document" -> <<"d","o","c","u","m","e","n","t">>
      [] s = "process" -> <<"p","r","o","c","e","s","s">>
      [] s = "extract" -> <<"e","x","t","r","a","c","t">>
      [] s = "upload" -> <<"u","p","l","o","a","d">>
      [] s = "task" -> <<"t","a","s","k">>
      [] s = "project" -> <<"p","r","o","j","e","c","t">>
      [] s = "manage" -> <<"m","a","n","a","g","e">>
      [] s = "organize" -> <<"o","r","g","a","n","i","z","e">>
      [] s = "approval" -> <<"a","p","p","r","o","v","a","l">>
      [] s = "review" -> <<"r","e","v","i","e","w">>
      [] s = "authorize" -> <<"a","u","t","h","o","r","i","z","e">>
      [] s = "generate" -> <<"g","e","n","e","r","a","t","e">>
      [] s = "create" -> <<"c","r","e","a","t","e">>
      [] s = "metadata discovery" -> <<"m","e","t","a","d","a","t","a"," ","d","i","s","c","o","v","e","r","y">>
      [] s = "discovery" -> <<"d","i","s","c","o","v","e","r","y">>
      [] s = "inception" -> <<"i","n","c","e","p","t","i","o","n">>
      [] s = "glossary" -> <<"g","l","o","s","s","a","r","y">>
      [] s = "business concept" -> <<"b","u","s","i","n","e","s","s"," ","c","o","n","c","e","p","t">>
      [] s = "data cataloging" -> <<"d","a","t","a"," ","c","a","t","a","l","o","g","i","n","g">>
      [] s = "catalog" -> <<"c","a","t","a","l","o","g">>
      [] s = "physical metadata" -> <<"p","h","y","s","i","c","a","l"," ","m","e","t","a","d","a","t","a">>
      [] s = "schema attribution" -> <<"s","c","h","e","m","a"," ","a","t","t","r","i","b","u","t","i","o","n">>
      [] s = "data vault" -> <<"d","a","t","a"," ","v","a","u","l","t">>
      [] s = "vault" -> <<"v","a","u","l","t">>
      [] s = "database assistant" -> <<"d","a","t","a","b","a","s","e"," ","a","s","s","i","s","t","a","n","t">>
      [] s = "hub" -> <<"h","u","b">>
      [] s = "link" -> <<"l","i","n","k">>
      [] s = "satellite" -> <<"s","a","t","e","l","l","i","t","e">>
      [] s = "business intelligence" -> <<"b","u","s","i","n","e","s","s"," ","i","n","t","e","l","l","i","g","e","n","c","e">>
      [] s = "bi" -> <<"b","i">>
      [] s = "story" -> <<"s","t","o","r","y">>
      [] s = "full pipeline" -> <<"f","u","l","l"," ","p","i","p","e","l","i","n","e">>
      [] s = "complete workflow" -> <<"c","o","m","p","l","e","t","e"," ","w","o","r","k","f","l","o","w">>
      [] s = "all agents" -> <<"a","l","l"," ","a","g","e","n","t","s">>
      [] s = "end to end" -> <<"e","n","d"," ","t","o"," ","e","n","d">>
      [] s = "Start metadata discovery" -> <<"S","t","a","r","t"," ","m","e","t","a","d","a","t","a"," ","d","i","s","c","o","v","e","r","y">>
      [] s = "Tell me a story" -> <<"T","e","l","l"," ","m","e"," ","a"," ","s","t","o","r","y">>
      [] s = "workflow" -> <<"w","o","r","k","f","l","o","w">>
      [] s = "run" -> <<"r","u","n">>
      [] s = "execute" -> <<"e","x","e","c","u","t","e">>
      [] s = "Please run Gerald Handoff" -> <<"P","l","e","a","s","e"," ","r","u","n"," ","G","e","r","a","l","d"," ","H","a","n","d","o","f","f">>
      [] s = "Execute the task organizer workflow" -> <<"E","x","e","c","u","t","e"," ","t","h","e"," ","t","a","s","k"," ","o","r","g","a","n","i","z","e","r"," ","w","o","r","k","f","l","o","w">>
      [] s = "Tell me about Gerald Handoff" -> <<"T","e","l","l"," ","m","e"," ","a","b","o","u","t"," ","G","e","r","a","l","d"," ","H","a","n","d","o","f","f">>
      [] s = "Hello" -> <<"H","e","l","l","o">>
      [] s = "Home Automation Handoff" -> <<"H","o","m","e"," ","A","u","t","o","m","a","t","i","o","n"," ","H","a","n","d","o","f","f">>
      [] s = "http" -> <<"h","t","t","p">>
      [] s = "/" -> <<"/">>
      [] s = "hook" -> <<"h","o","o","k">>
      [] s = "/hook" -> <<"/","h","o","o","k">>
      [] s = "http://host/hook" -> <<"h","t","t","p",":","/","/","h","o","s","t","/","h","o","o","k">>

UpperCase == <<"A","B","C","D","E","F","G","H","I","J","K","L","M",
               "N","O","P","Q","R","S","T","U","V","W","X","Y","Z">>
LowerCase == <<"a","b","c","d","e","f","g","h","i","j","k","l","m",
               "n","o","p","q","r","s","t","u","v","w","x","y","z">>

\* str.lower() on one character
LowerChar(c) ==
    IF \E i \in 1..Len(UpperCase) : UpperCase[i] = c
    THEN LowerCase[CHOOSE i \in 1..Len(UpperCase) : UpperCase[i] = c]
    ELSE c

\* str.lower() on a character sequence
Lower(cs) == [i \in 1..Len(cs) |-> LowerChar(cs[i])]

\* Python "k in s" for character sequences
IsSubstring(k, s) ==
    \E i \in 1..(Len(s) - Len(k) + 1) : SubSeq(s, i, i + Len(k) - 1) = k

\* keyword "in" lowercase workflow name
Has(kw, lname) == IsSubstring(Chars(kw), lname)

(* ------------------------- capability types --------------------------- *)
AgentTypes == {"data_analysis", "home_automation", "document_processing",
               "task_management", "approval_workflow", "report_generation"}

\* HandoffManager._map_workflow_to_agent: lname is the lowercase name
map_workflow_to_agent(lname) ==
    IF Has("gerald", lname) \/ Has("handoff", lname) THEN "data_analysis"
    ELSE IF Has("homeautomation", lname) \/ Has("home automation", lname)
         THEN "home_automation"
    ELSE IF \E kw \in {"data", "analysis", "insights", "metrics", "report"} : Has(kw, lname)
         THEN "data_analysis"
    ELSE IF \E kw \in {"document", "process", "extract", "upload"} : Has(kw, lname)
         THEN "document_processing"
    ELSE IF \E kw \in {"task", "project", "manage", "organize"} : Has(kw, lname)
         THEN "task_management"
    ELSE IF \E kw \in {"approval", "review", "authorize"} : Has(kw, lname)
         THEN "approval_workflow"
    ELSE IF \E kw \in {"report", "generate", "create", "document"} : Has(kw, lname)
         THEN "report_generation"
    ELSE NoValue

\* the workflow names that occur in the model
WorkflowNames == {"Gerald Handoff", "Home Automation Advisor", "Task Organizer",
                  "Document Upload", "Customer Notification System",
                  "Data Processing Pipeline", "Report Generation Workflow",
                  "Home Automation Handoff"}

\* the type of every name: _map_workflow_to_agent(name.lower()), computed once
AgentOfName == [n \in WorkflowNames |-> map_workflow_to_agent(Lower(Chars(n)))]

\* lines 182-183 for every name, computed once
IsHomeAutomationName ==
    [n \in WorkflowNames |->
        LET lname == Lower(Chars(n)) IN
        Has("homeautomation", lname) \/ Has("home automation", lname)]

\* HandoffManager._extract_webhook_path for a catalog entry: list_workflows
\* passes on id, name, description and active only, so there are no nodes
extract_webhook_path(workflow) ==
    IF IsHomeAutomationName[workflow.name]
    THEN <<"webhook", "chat">>
    ELSE <<"webhook", workflow.id>>

(* ------------------------- external catalog --------------------------- *)
\* workflows the external n8n instance may hold
WorkflowPool ==
    { [id |-> "w1", name |-> "Gerald Handoff",               active |-> TRUE],
      [id |-> "w2", name |-> "Home Automation Advisor",      active |-> TRUE],
      [id |-> "w3", name |-> "Task Organizer",               active |-> TRUE],
      [id |-> "w4", name |-> "Document Upload",              active |-> FALSE],
      [id |-> "w5", name |-> "Customer Notification System", active |-> TRUE] }

\* a catalog snapshot: the "data" list of the API's JSON answer
Snapshots ==
    UNION { { s \in [1..n -> WorkflowPool] : \A i, j \in 1..n : i # j => s[i] # s[j] }
            : n \in 0..MaxCatalog }

\* N8nMCPClient.list_workflows: the hard-coded sample catalog
SampleWorkflows ==
    << [id |-> "sample-1", name |-> "Data Processing Pipeline",     active |-> TRUE],
       [id |-> "sample-2", name |-> "Customer Notification System", active |-> TRUE],
       [id |-> "sample-3", name |-> "Report Generation Workflow",   active |-> FALSE] >>

\* what requests.get can do: answer with a status and a body, or raise
\*   body "json": a JSON object whose "data" is the snapshot
\*   body "html": a Cloudflare Access page;  body "text": anything else
FetchOutcomes ==
    [kind : {"response"}, status : {200}, body : {"json"}, data : Snapshots]
    \cup [kind : {"response"}, status : {200, 403, 500}, body : {"html", "text"}, data : {<<>>}]
    \cup [kind : {"raise"}, status : {0}, body : {"text"}, data : {<<>>}]

\* N8nMCPClient.list_workflows
list_workflows(o) ==
    IF o.kind = "raise" THEN [status |-> "error", workflows |-> <<>>]
    ELSE IF o.status = 200 THEN
        IF o.body = "html" THEN [status |-> "success", workflows |-> SampleWorkflows]
        ELSE IF o.body = "json" THEN [status |-> "success", workflows |-> o.data]
        ELSE [status |-> "success", workflows |-> SampleWorkflows]
    ELSE IF o.status = 403 \/ o.body = "html"
         THEN [status |-> "success", workflows |-> SampleWorkflows]
    ELSE [status |-> "error", workflows |-> <<>>]

\* the fetch failed: an error status or a raised exception
FetchFailed(o) == o.kind = "raise" \/ o.status # 200

(* ------------------------------ state --------------------------------- *)
VARIABLES
    now,                    \* datetime.now(), in seconds
    ticks,                  \* clock advances so far
    n8n_workflows_cache,    \* HandoffManager.n8n_workflows_cache
    last_workflow_refresh,  \* HandoffManager.last_workflow_refresh
    active_handoffs,        \* HandoffManager.active_handoffs
    handoff_history,        \* HandoffManager.handoff_history
    next_uuid,              \* the next value of uuid.uuid4()
    pending,                \* the execute_workflow_handoff call waiting for its webhook
    ret,                    \* what the last step, a manager call or a tick, returned
    refresh_log             \* the last direct refresh_n8n_workflows call: when, how,
                            \* what the fetch answered and what the call returned

hvars == <<now, ticks, n8n_workflows_cache, last_workflow_refresh, active_handoffs,
           handoff_history, next_uuid, pending, ret, refresh_log>>

\* HandoffStatus
PENDING == "pending"
IN_PROGRESS == "in_progress"
COMPLETED == "completed"
FAILED == "failed"
CANCELLED == "cancelled"
WORKFLOW_EXECUTING == "workflow_executing"
TerminalStatuses == {COMPLETED, FAILED, CANCELLED}

\* the cache as a mapping from every type to its handles; a type the Python
\* dict has no key for has the empty list, which is what .get(type, []) reads
EmptyCache == [t \in AgentTypes |-> <<>>]

\* the handle refresh_n8n_workflows stores for a catalog entry (lines 89-95)
Handle(workflow) ==
    [id |-> workflow.id, name |-> workflow.name, active |-> workflow.active,
     webhook_path |-> extract_webhook_path(workflow)]

\* refresh_n8n_workflows, lines 66-98: the loop over the snapshot only binds
\* workflow, workflow_name and workflow_id; the classification and the append
\* follow the loop and act on the entry the loop ended with.
\* workflows is not empty here.
organize_workflows(workflows) ==
    LET workflow == workflows[Len(workflows)]
        assigned_agent == AgentOfName[workflow.name]
    IN  IF assigned_agent # NoValue
        THEN [t \in AgentTypes |->
                IF t = assigned_agent THEN <<Handle(workflow)>> ELSE <<>>]
        ELSE EmptyCache

\* (datetime.now() - last_workflow_refresh).seconds for t >= last
DeltaSeconds(t, last) == (t - last) % SecondsPerDay

\* the log's entry for "no fetch was issued"
NoFetch == [kind |-> "raise", status |-> 0, body |-> "text", data |-> <<>>]

\* line 52-54: the cache is served
CacheIsFresh(last, t, force) ==
    ~force /\ last # NoTime /\ DeltaSeconds(t, last) < TTL

\* refresh_n8n_workflows, lines 58-98: the fetch answering o and the mapping
\* built from it. With an empty snapshot line 78 reads the unbound
\* workflow_name: the NameError is caught on line 108, as a failed fetch is.
fetch_and_organize(o) ==
    LET result == list_workflows(o) IN
    IF result.status = "success" /\ Len(result.workflows) > 0
    THEN [built |-> TRUE, organized |-> organize_workflows(result.workflows)]
    ELSE [built |-> FALSE, organized |-> EmptyCache]

\* every mapping a fetch can lead to, computed once
FetchResults == { fetch_and_organize(o) : o \in FetchOutcomes }

\* refresh_n8n_workflows at time t, given what its fetch would lead to: the
\* new cache and timestamp, the value returned, and whether it fetched
refresh_with(cache, last, t, force, f) ==
    IF CacheIsFresh(last, t, force)
    THEN [cache |-> cache, last |-> last, ret |-> cache, fetched |-> FALSE]
    ELSE IF f.built
    THEN [cache |-> f.organized, last |-> t, ret |-> f.organized, fetched |-> TRUE]
    ELSE [cache |-> cache, last |-> last, ret |-> cache, fetched |-> TRUE]

\* HandoffManager.refresh_n8n_workflows at time t with the fetch answering o
refresh_n8n_workflows(cache, last, t, force, o) ==
    refresh_with(cache, last, t, force, fetch_and_organize(o))

\* the answers the fetch of a refresh call can get: none when the cache is served
FetchChoices(force) ==
    IF CacheIsFresh(last_workflow_refresh, now, force) THEN {NoFetch} ELSE FetchOutcomes

\* what a refresh_n8n_workflows(False) call inside a manager call can do
RefreshResults ==
    { refresh_with(n8n_workflows_cache, last_workflow_refresh, now, FALSE, f) :
        f \in FetchResults }

\* the record of one refresh call
LogRefresh(r, t, force, o) ==
    [called |-> TRUE, seq |-> 1 - refresh_log.seq, at |-> t, force |-> force,
     fetched |-> r.fetched, outcome |-> IF r.fetched THEN o ELSE NoFetch,
     ret |-> r.ret]

\* a manager call's return value
Return(op, success, handoff_id, value, error) ==
    [op |-> op, success |-> success, handoff_id |-> handoff_id,
     value |-> value, error |-> error]

HandoffIds == 1..MaxHandoffs
SessionIds == {"s1"}
Results == {"r1", "r2"}

\* "handoff_id not in self.active_handoffs": the failure returned
NotFoundAccepted(op, handoff_id) == Return(op, TRUE, handoff_id, NoValue, NoValue)
NotFoundOutcome(op, handoff_id) == Return(op, FALSE, handoff_id, NoValue, "not_found")

Ids(collection) == { r.handoff_id : r \in collection }
Get(collection, h) == CHOOSE r \in collection : r.handoff_id = h
\* collection[h] = data
Put(collection, data) ==
    { r \in collection : r.handoff_id # data.handoff_id } \cup {data}
\* del collection[h]
DelForgotten(collection, h) == collection
Del(collection, h) == { r \in collection : r.handoff_id # h }

\* what requests.post can do: answer with a status and a body, or raise
\*   body "json": parsable JSON;  "text": not JSON;  "empty": no content
WebhookOutcomes ==
    [kind : {"response"}, status : {200}, body : {"json"}, result : {"r1"}]
    \cup [kind : {"response"}, status : {200, 500}, body : {"text", "empty"}, result : {NoValue}]
    \cup [kind : {"raise"}, status : {0}, body : {"text"}, result : {NoValue}]

\* _trigger_gerald_workflow / _trigger_home_automation_workflow: "success"
trigger_workflow(wo) == wo.kind = "response" /\ wo.status = 200

AutoTriggerTypes == {"data_analysis", "home_automation"}

\* lines 384-419: what the automatic trigger of initiate_handoff can record as
\* <type>_workflow_triggered; nothing for a type that does not trigger
TriggerResults(target_agent_type) ==
    IF target_agent_type \in AutoTriggerTypes
    THEN { IF trigger_workflow(wo) THEN "true" ELSE "false" : wo \in WebhookOutcomes }
    ELSE {NoValue}

HInit ==
    /\ now = 0
    /\ ticks = 0
    /\ n8n_workflows_cache = EmptyCache
    /\ last_workflow_refresh = NoTime
    /\ active_handoffs = {}
    /\ handoff_history = {}
    /\ next_uuid = 1
    /\ pending = <<>>
    /\ ret = Return("init", TRUE, 0, NoValue, NoValue)
    /\ refresh_log = [called |-> FALSE, seq |-> 0, at |-> 0, force |-> FALSE,
                      fetched |-> FALSE, outcome |-> NoFetch, ret |-> EmptyCache]

\* time passes between calls, by one of the given numbers of seconds
Tick(steps) ==
    /\ pending = <<>>
    /\ ticks < MaxTicks
    /\ \E d \in steps : now' = now + d
    /\ ticks' = ticks + 1
    /\ ret' = Return("tick", TRUE, 0, NoValue, NoValue)
    /\ UNCHANGED <<n8n_workflows_cache, last_workflow_refresh, active_handoffs,
                   handoff_history, next_uuid, pending, refresh_log>>

\* refresh_n8n_workflows called on its own (POST /api/handoff/refresh-workflows
\* and the other registry readers)
Refresh ==
    /\ pending = <<>>
    /\ \E force \in BOOLEAN : \E o \in FetchChoices(force) :
         LET r == refresh_n8n_workflows(n8n_workflows_cache, last_workflow_refresh,
                                        now, force, o) IN
         /\ n8n_workflows_cache' = r.cache
         /\ last_workflow_refresh' = r.last
         /\ refresh_log' = LogRefresh(r, now, force, o)
         /\ ret' = Return("refresh", TRUE, 0, NoValue, NoValue)
    /\ UNCHANGED <<now, ticks, active_handoffs, handoff_history, next_uuid, pending>>

\* HandoffManager.initiate_handoff
InitiateHandoff ==
    /\ pending = <<>>
    /\ \E session_id \in SessionIds, target_agent_type \in AgentTypes,
          r \in RefreshResults : \E triggered \in TriggerResults(target_agent_type) :
         LET agent_workflows == r.ret[target_agent_type]
             handoff_id == next_uuid
             handoff_data ==
                 [handoff_id |-> handoff_id,
                  original_session_id |-> session_id,
                  specialized_session_id |->
                      <<session_id, "specialized", target_agent_type, handoff_id>>,
                  target_agent_type |-> target_agent_type,
                  status |-> IN_PROGRESS,
                  executing_workflow |-> NoValue,
                  workflow_result |-> NoValue,
                  final_result |-> NoValue,
                  error |-> NoValue,
                  workflow_triggered |-> triggered]
         IN
         /\ n8n_workflows_cache' = r.cache
         /\ last_workflow_refresh' = r.last
         /\ IF agent_workflows = <<>>
            THEN /\ ret' = Return("initiate", FALSE, 0, NoValue, "no_workflows")
                 /\ UNCHANGED <<active_handoffs, next_uuid>>
            ELSE /\ next_uuid <= MaxHandoffs
                 /\ active_handoffs' = Put(active_handoffs, handoff_data)
                 /\ next_uuid' = next_uuid + 1
                 /\ ret' = Return("initiate", TRUE, handoff_id, NoValue, NoValue)
    /\ UNCHANGED <<now, ticks, handoff_history, pending, refresh_log>>

\* the workflow ids a caller names: two of the catalog and one of no catalog
WorkflowIds == {"w1", "w3", "w9"}

\* first element of seq whose index is in hits, as a 0- or 1-element sequence
FirstWhereOrFirst(seq, hits) ==
    IF hits # {}
    THEN <<seq[CHOOSE i \in hits : \A j \in hits : i <= j]>>
    ELSE IF seq = <<>> THEN <<>> ELSE <<seq[1]>>
FirstWhere(seq, hits) ==
    IF hits = {}
    THEN <<>>
    ELSE <<seq[CHOOSE i \in hits : \A j \in hits : i <= j]>>

\* HandoffManager.execute_workflow_handoff, lines 591-641: up to the dispatch
ExecuteDispatch ==
    /\ pending = <<>>
    /\ \E handoff_id \in HandoffIds, workflow_arg \in WorkflowIds \cup {NoValue},
          r \in RefreshResults :
         IF handoff_id \notin Ids(active_handoffs)
         THEN /\ ret' = NotFoundOutcome("execute", handoff_id)
              /\ UNCHANGED <<n8n_workflows_cache, last_workflow_refresh,
                             active_handoffs, pending>>
         ELSE
         LET handoff_data == Get(active_handoffs, handoff_id)
             agent_workflows == r.ret[handoff_data.target_agent_type]
             active_workflows ==
                 FirstWhere(agent_workflows,
                            {i \in 1..Len(agent_workflows) : agent_workflows[i].active})
             workflow_id == IF workflow_arg # NoValue THEN workflow_arg
                            ELSE IF active_workflows # <<>> THEN active_workflows[1].id
                            ELSE NoValue
             target_workflow ==
                 FirstWhere(agent_workflows,
                            {i \in 1..Len(agent_workflows) :
                                 agent_workflows[i].id = workflow_id})
         IN
         /\ n8n_workflows_cache' = r.cache
         /\ last_workflow_refresh' = r.last
         /\ IF agent_workflows = <<>>
            THEN /\ ret' = Return("execute", FALSE, handoff_id, NoValue, "no_workflows")
                 /\ UNCHANGED <<active_handoffs, pending>>
            ELSE IF workflow_id = NoValue
            THEN /\ ret' = Return("execute", FALSE, handoff_id, NoValue, "no_active_workflows")
                 /\ UNCHANGED <<active_handoffs, pending>>
            ELSE IF target_workflow = <<>>
            THEN /\ ret' = Return("execute", FALSE, handoff_id, NoValue, "workflow_not_found")
                 /\ UNCHANGED <<active_handoffs, pending>>
            ELSE /\ active_handoffs' =
                       Put(active_handoffs,
                           [handoff_data EXCEPT !.status = WORKFLOW_EXECUTING,
                                                !.executing_workflow = workflow_id])
                 /\ pending' = <<[handoff_id |-> handoff_id,
                                  workflow_arg |-> workflow_arg,
                                  workflow |-> target_workflow[1]]>>
                 /\ ret' = Return("execute", FALSE, handoff_id, NoValue, "in_flight")
    /\ UNCHANGED <<now, ticks, handoff_history, next_uuid, refresh_log>>

\* lines 658-664: the webhook was posted to, answered 200 and its body parsed
webhook_succeeded(workflow, wo) ==
    /\ workflow.webhook_path # <<>>
    /\ wo.kind = "response"
    /\ wo.status = 200
    /\ wo.body = "json"

\* lines 701-703: the except clause records the failure in the record
failed_record_unhandled(handoff_data, error) == handoff_data
failed_record(handoff_data, error) ==
    [handoff_data EXCEPT !.status = FAILED, !.error = error]

\* HandoffManager.execute_workflow_handoff, lines 643-710: the webhook answers.
\* A handle without a webhook_path goes through trigger_webhook_workflow, which
\* is called with a keyword (http_method) it does not take: a TypeError.
ExecuteReturn ==
    /\ pending # <<>>
    /\ \E wo \in WebhookOutcomes :
         LET handoff_id == pending[1].handoff_id
             handoff_data == Get(active_handoffs, handoff_id)
         IN
         IF webhook_succeeded(pending[1].workflow, wo)
         THEN /\ active_handoffs' =
                    Put(active_handoffs,
                        [handoff_data EXCEPT !.workflow_result = wo.result,
                                             !.status = COMPLETED])
              /\ ret' = Return("execute", TRUE, handoff_id, wo.result, NoValue)
         ELSE /\ active_handoffs' =
                    Put(active_handoffs, failed_record(handoff_data, "execution_failed"))
              /\ ret' = Return("execute", FALSE, handoff_id, NoValue, "execution_failed")
    /\ pending' = <<>>
    /\ UNCHANGED <<now, ticks, n8n_workflows_cache, last_workflow_refresh,
                   handoff_history, next_uuid, refresh_log>>

\* complete_handoff, lines 733-734: the workflow result, when the record has
\* one, replaces the caller's result
caller_result(handoff_data, result_arg) == result_arg
final_result(handoff_data, result_arg) ==
    IF handoff_data.workflow_result # NoValue
    THEN handoff_data.workflow_result
    ELSE result_arg

\* HandoffManager.complete_handoff
CompleteHandoff ==
    /\ pending = <<>>
    /\ \E handoff_id \in HandoffIds, result_arg \in {NoValue, "r2"} :
         IF handoff_id \notin Ids(active_handoffs)
         THEN /\ ret' = NotFoundOutcome("complete", handoff_id)
              /\ UNCHANGED <<active_handoffs, handoff_history>>
         ELSE
         LET handoff_data == Get(active_handoffs, handoff_id)
             result == final_result(handoff_data, result_arg)
             completed == [handoff_data EXCEPT !.status = COMPLETED,
                                               !.final_result = result]
         IN
         /\ handoff_history' = Put(handoff_history, completed)
         /\ active_handoffs' = Del(active_handoffs, handoff_id)
         /\ ret' = Return("complete", TRUE, handoff_id, result, NoValue)
    /\ UNCHANGED <<now, ticks, n8n_workflows_cache, last_workflow_refresh,
                   next_uuid, pending, refresh_log>>

(* ---------------------- workflow orchestration ------------------------ *)
VARIABLES
    workflow_registry,   \* WorkflowOrchestrationEngine.workflow_registry
    registrations,       \* register_workflow calls so far
    seq_pc,              \* execute_workflow_sequence: "idle", "running" or "done"
    seq_request,         \* the SequenceRequest being served
    seq_requests,        \* workflow_requests: the WorkflowRequests prepared
    seq_results,         \* the WorkflowResponses so far, in completion order
    seq_response,        \* the SequenceResponse returned
    seq_builds,          \* the request contexts the run began to build, in order
    seq_calls            \* the execute_workflow calls of the run, in order

VARIABLE decision        \* the last should_handoff call: its arguments and answer

VARIABLES
    session_contexts,    \* EnhancedAgentCoordinator.session_contexts
    sent,                \* per session id, the user messages of its turns in call order
    turn_result          \* what the last process_bi_request call returned

cvars == <<session_contexts, sent, turn_result>>

VARIABLES
    refresh_pc,          \* a refresh taken step by step: "idle", "organizing", "organized"
    organized_workflows, \* its local organized_workflows
    refresh_job,         \* the cache it started from and the mapping it is building
    observed             \* what the last reader of the cache saw, and when

rvars == <<refresh_pc, organized_workflows, refresh_job, observed>>

VARIABLE resolved        \* the last _extract_webhook_path call: its workflow and answer

wvars == <<resolved>>

VARIABLES
    split_pc,            \* _split_text_into_chunks: "idle", "loop" or "done"
    text_length,         \* len(text)
    start,               \* the loop's start
    chunks,              \* len(chunks), counted modulo MaxChunks + 1
    upload_status        \* what the last process_document call returned

uvars == <<split_pc, text_length, start, chunks, upload_status>>

dvars == <<decision>>

evars == <<workflow_registry, registrations, seq_pc, seq_request, seq_requests,
           seq_results, seq_response, seq_builds, seq_calls>>

vars == <<now, ticks, n8n_workflows_cache, last_workflow_refresh, active_handoffs,
          handoff_history, next_uuid, pending, ret, refresh_log,
          workflow_registry, registrations, seq_pc, seq_request, seq_requests,
          seq_results, seq_response, seq_builds, seq_calls, decision,
          session_contexts, sent, turn_result,
          refresh_pc, organized_workflows, refresh_job, observed,
          resolved, split_pc, text_length, start, chunks, upload_status>>

\* register_workflow calls the model makes
MaxRegistrations == 2

\* AgentType
EngineAgentTypes == {"inception", "glossary", "business_concept", "story",
                     "physical_metadata", "schema_attribution", "database_assistant"}

\* WorkflowSequenceType
SequenceTypes == {"metadata_discovery", "data_cataloging", "data_vault_generation",
                  "business_intelligence", "full_bi_pipeline"}

\* WorkflowOrchestrationEngine.__init__: self.workflow_sequences
workflow_sequences_fallback(sequence_type) == <<"story">>
workflow_sequences(sequence_type) ==
    CASE sequence_type = "metadata_discovery" ->
             <<"inception", "glossary", "business_concept">>
      [] sequence_type = "data_cataloging" ->
             <<"physical_metadata", "schema_attribution">>
      [] sequence_type = "data_vault_generation" -> <<"database_assistant">>
      [] sequence_type = "business_intelligence" -> <<"story">>
      [] sequence_type = "full_bi_pipeline" ->
             <<"inception", "glossary", "business_concept", "physical_metadata",
               "schema_attribution", "database_assistant", "story">>
      [] OTHER -> <<>>

\* WorkflowOrchestrationEngine.__init__: self.workflow_registry
DefaultRegistry ==
    [a \in EngineAgentTypes |->
        CASE a = "inception" -> "inception-agent-workflow-id"
          [] a = "glossary" -> "glossary-agent-workflow-id"
          [] a = "business_concept" -> "business-concept-agent-workflow-id"
          [] a = "story" -> "story-agent-workflow-id"
          [] a = "physical_metadata" -> "physical-metadata-agent-workflow-id"
          [] a = "schema_attribution" -> "schema-attribution-agent-workflow-id"
          [] a = "database_assistant" -> "database-assistant-agent-workflow-id"]

\* N8nMCPClient.trigger_webhook_workflow: "success" or the error message
trigger_webhook_workflow(wo) ==
    IF wo.kind = "raise" THEN [status |-> "error", result |-> NoValue, message |-> "exception"]
    ELSE IF wo.status = 200 THEN
        IF wo.body = "json"
        THEN [status |-> "success", result |-> wo.result, message |-> NoValue]
        ELSE IF wo.body = "empty"
        THEN [status |-> "success", result |-> "triggered", message |-> NoValue]
        ELSE [status |-> "error", result |-> NoValue, message |-> "json_decode_error"]
    ELSE [status |-> "error", result |-> NoValue, message |-> "status_error"]

\* a WorkflowResponse
WorkflowResponseWithoutError(success, agent_type, result, error) ==
    [success |-> success, agent_type |-> agent_type, result |-> result, error |-> NoValue]
WorkflowResponse(success, agent_type, result, error) ==
    [success |-> success, agent_type |-> agent_type, result |-> result, error |-> error]

\* WorkflowOrchestrationEngine.execute_workflow for one request
execute_workflow(agent_type, registry, wo) ==
    LET workflow_id == registry[agent_type] IN
    IF workflow_id = ""
    THEN WorkflowResponse(FALSE, agent_type, NoValue, "no_workflow_id")
    ELSE LET n8n_result == trigger_webhook_workflow(wo) IN
         IF n8n_result.status = "success"
         THEN WorkflowResponse(TRUE, agent_type, n8n_result.result, NoValue)
         ELSE WorkflowResponse(FALSE, agent_type, NoValue, n8n_result.message)

\* a WorkflowRequest
WorkflowRequest(agent_type, payload, session_id, context, priority) ==
    [agent_type |-> agent_type, payload |-> payload, session_id |-> session_id,
     context |-> context, priority |-> priority]

\* execute_workflow_sequence, line 201: request.context or {}
base_context(request) ==
    IF request.context = NoValue THEN "empty" ELSE request.context

\* execute_workflow_sequence, lines 201-203, for the request of step i (from
\* 1): the context is built while results_ready results exist, and for i > 1
\* it reads the requests of the steps before it
ContextBuild(i, results_ready) ==
    [step |-> i, reads_previous |-> i > 1, results_ready |-> results_ready]

\* time units one webhook call takes
CallDuration == 1

\* execute_workflow, lines 138 and 148: the execution_time of a call
execution_time(call) == IF call.dispatched THEN CallDuration ELSE 0

\* execute_workflow_sequence, lines 183 and 250: the wall time of a run.
\* requests.post blocks the event loop, so in either mode a call starts when
\* the one before it has returned and the times add up.
RECURSIVE total_execution_time(_)
total_execution_time(calls) ==
    IF calls = <<>> THEN 0
    ELSE execution_time(Head(calls)) + total_execution_time(Tail(calls))

\* the largest number of webhook calls of a run in flight at one time: a call
\* returns before the next is made
in_flight_peak(calls) ==
    IF \E i \in 1..Len(calls) : calls[i].dispatched THEN 1 ELSE 0

\* execute_workflow_sequence, lines 197-212: building the requests, all of
\* them before any is executed. For the second request (i > 0) line 203 reads
\* r.result of the WorkflowRequests built so far; a WorkflowRequest has no such
\* attribute: an AttributeError, raised in either execution mode.
prepare_requests(request, agent_sequence) ==
    IF Len(agent_sequence) > 1
    THEN [raised |-> TRUE, requests |-> <<>>,
          builds |-> <<ContextBuild(1, 0), ContextBuild(2, 0)>>]
    ELSE [raised |-> FALSE,
          requests |-> [i \in 1..Len(agent_sequence) |->
                           WorkflowRequest(agent_sequence[i], request.payload,
                                           request.session_id, base_context(request), i)],
          builds |-> [i \in 1..Len(agent_sequence) |-> ContextBuild(i, 0)]]

\* execute_workflow, lines 123-129: the payload sent to the webhook; the
\* request's context is not part of it
enhanced_payload(request) ==
    [payload |-> request.payload, datahub_context |-> <<"datahub", request.agent_type>>,
     session_id |-> request.session_id, agent_type |-> request.agent_type]

\* the outcome recorded for a call that did not reach the webhook
NoOutcome == [kind |-> "none", status |-> 0, body |-> "empty", result |-> NoValue]

\* one execute_workflow call: the webhook is called, and answers wo, when the
\* type has a workflow id
WorkflowCallByDefault(request, registry, wo) ==
    [agent_type |-> request.agent_type, workflow_id |-> DefaultRegistry[request.agent_type],
     dispatched |-> TRUE,
     payload |-> enhanced_payload(request),
     outcome |-> wo]
WorkflowCall(request, registry, wo) ==
    [agent_type |-> request.agent_type, workflow_id |-> registry[request.agent_type],
     dispatched |-> registry[request.agent_type] # "",
     payload |-> enhanced_payload(request),
     outcome |-> IF registry[request.agent_type] # "" THEN wo ELSE NoOutcome]

\* the errors entry of a failing step: "Workflow <type> failed: <error>"
ErrorEntry(response) == <<"Workflow", response.agent_type, "failed", response.error>>

\* lines 223-246: the errors of the failing results, in result order
RECURSIVE collect_errors(_)
collect_errors(results) ==
    IF results = <<>> THEN <<>>
    ELSE (IF Head(results).success THEN <<>> ELSE <<ErrorEntry(Head(results))>>)
         \o collect_errors(Tail(results))

\* line 251
sequence_success_always(errors) == TRUE
sequence_success(errors) == Len(errors) = 0

\* a SequenceResponse
SequenceResponse(success, results, errors) ==
    [success |-> success, results |-> results, errors |-> errors]

NoRequest ==
    [sequence_type |-> NoValue, payload |-> "payload", session_id |-> "s1",
     context |-> NoValue, parallel_execution |-> FALSE]

\* the context a SequenceRequest carries: None or a dict
RequestContexts == {NoValue, "context"}

EInit ==
    /\ workflow_registry = DefaultRegistry
    /\ registrations = 0
    /\ seq_pc = "idle"
    /\ seq_request = NoRequest
    /\ seq_requests = <<>>
    /\ seq_results = <<>>
    /\ seq_response = SequenceResponse(FALSE, <<>>, <<>>)
    /\ seq_builds = <<>>
    /\ seq_calls = <<>>

\* WorkflowOrchestrationEngine.register_workflow
RegisterWorkflow ==
    /\ seq_pc # "running"
    /\ registrations < MaxRegistrations
    /\ \E agent_type \in EngineAgentTypes, workflow_id \in {"", "custom-workflow-id"} :
         workflow_registry' = [workflow_registry EXCEPT ![agent_type] = workflow_id]
    /\ registrations' = registrations + 1
    /\ UNCHANGED <<seq_pc, seq_request, seq_requests, seq_results, seq_response,
                   seq_builds, seq_calls>>

\* execute_workflow_sequence, lines 183-212: the lookup and the requests. A
\* name that is no WorkflowSequenceType has no entry; line 194 then reads its
\* .value: the AttributeError is caught on line 266.
SequenceStart ==
    /\ seq_pc # "running"
    /\ \E sequence_type \in SequenceTypes \cup {"unknown"}, parallel \in BOOLEAN,
          context \in RequestContexts :
         LET request == [sequence_type |-> sequence_type, payload |-> "payload",
                         session_id |-> "s1", context |-> context,
                         parallel_execution |-> parallel]
             agent_sequence == workflow_sequences(sequence_type)
             prepared == prepare_requests(request, agent_sequence)
         IN
         /\ seq_request' = request
         /\ seq_results' = <<>>
         /\ seq_calls' = <<>>
         /\ IF agent_sequence = <<>>
            THEN /\ seq_pc' = "done"
                 /\ seq_requests' = <<>>
                 /\ seq_builds' = <<>>
                 /\ seq_response' =
                        SequenceResponse(FALSE, <<>>, <<<<"exception", "AttributeError">>>>)
            ELSE IF prepared.raised
            THEN /\ seq_pc' = "done"
                 /\ seq_requests' = <<>>
                 /\ seq_builds' = prepared.builds
                 /\ seq_response' =
                        SequenceResponse(FALSE, <<>>, <<<<"exception", "AttributeError">>>>)
            ELSE /\ seq_pc' = "running"
                 /\ seq_requests' = prepared.requests
                 /\ seq_builds' = prepared.builds
                 /\ UNCHANGED seq_response
    /\ UNCHANGED <<workflow_registry, registrations>>

\* execute_workflow_sequence, lines 214-264: the next request is executed; after
\* the last one the results are aggregated and the SequenceResponse returned.
\* asyncio.gather runs the coroutines in list order and execute_workflow never
\* yields to the loop, so both modes execute the requests one after another.
\* errors is None instead of the empty list when no step failed (line 258); the
\* model keeps the empty list.
SequenceStep ==
    /\ seq_pc = "running"
    /\ \E wo \in WebhookOutcomes :
         LET i == Len(seq_results) + 1
             result == execute_workflow(seq_requests[i].agent_type, workflow_registry, wo)
             workflow_results == Append(seq_results, result)
             errors == collect_errors(workflow_results)
         IN
         /\ seq_results' = workflow_results
         /\ seq_calls' = Append(seq_calls, WorkflowCall(seq_requests[i], workflow_registry, wo))
         /\ IF i = Len(seq_requests)
            THEN /\ seq_pc' = "done"
                 /\ seq_response' =
                        SequenceResponse(sequence_success(errors), workflow_results, errors)
            ELSE UNCHANGED <<seq_pc, seq_response>>
    /\ UNCHANGED <<workflow_registry, registrations, seq_request, seq_requests, seq_builds>>

(* -------------------------- handoff decision -------------------------- *)
\* a signal without the "confidence" key
NoConfidence == -1

\* confidences and thresholds in hundredths
Confidences == {NoConfidence, 69, 70}
Thresholds == {0, 70}

\* the intents a signal carries; NoValue is a signal without the key
IntentTypes == {NoValue, "data_analysis", "home_automation", "approval_request"}

\* the user texts a signal carries
UserMessages == {"Please run Gerald Handoff", "Execute the task organizer workflow",
                 "Tell me about Gerald Handoff", "Hello"}

\* should_handoff, line 236: intent_analysis.get("confidence", 0.0)
get_confidence(confidence) == IF confidence = NoConfidence THEN 0 ELSE confidence

\* should_handoff, line 237: intent_analysis.get("intent", "general_inquiry")
get_intent(intent) == IF intent = NoValue THEN "general_inquiry" ELSE intent

\* should_handoff, line 241
below_threshold_reversed(confidence, confidence_threshold) ==
    confidence > confidence_threshold
below_threshold(confidence, confidence_threshold) ==
    confidence < confidence_threshold

\* should_handoff, line 248, on the lowered user text
IsDirectRequest ==
    [m \in UserMessages |->
        LET user_message == Lower(Chars(m)) IN
        \/ Has("workflow", user_message)
        \/ Has("run", user_message)
        \/ Has("execute", user_message)]

\* should_handoff, line 252: the workflow names whose lowered form occurs in
\* the lowered user text
MentionedNames ==
    [m \in UserMessages |->
        { n \in WorkflowNames : IsSubstring(Lower(Chars(n)), Lower(Chars(m))) }]

\* should_handoff, lines 257-266: intent_to_agent_mapping.get(intent_type)
intent_to_agent_mapping(intent_type) ==
    CASE intent_type = "data_analysis" -> "data_analysis"
      [] intent_type = "home_automation" -> "home_automation"
      [] intent_type = "report_generation" -> "report_generation"
      [] intent_type = "approval_request" -> "approval_workflow"
      [] intent_type = "document_processing" -> "document_processing"
      [] intent_type = "task_management" -> "task_management"
      [] OTHER -> NoValue

\* should_handoff, line 269: the type has handles in the mapping
has_workflows_unchecked(workflows, target_agent) == target_agent # NoValue
has_workflows(workflows, target_agent) ==
    target_agent # NoValue /\ workflows[target_agent] # <<>>

\* should_handoff, lines 250-253: the types with a handle the text names. The
\* mapping refresh_n8n_workflows builds has at most one key, so the loop over
\* workflows.items() meets at most one such type.
named_types(workflows, m) ==
    { t \in AgentTypes :
        \E i \in 1..Len(workflows[t]) : workflows[t][i].name \in MentionedNames[m] }

\* HandoffManager.should_handoff, lines 236-273, on the mapping the refresh returned
should_handoff(confidence_arg, intent_arg, m, confidence_threshold, workflows) ==
    LET confidence == get_confidence(confidence_arg)
        intent_type == get_intent(intent_arg)
        target_agent == intent_to_agent_mapping(intent_type)
    IN  IF below_threshold(confidence, confidence_threshold) THEN NoValue
        ELSE IF IsDirectRequest[m] /\ named_types(workflows, m) # {}
        THEN CHOOSE t \in named_types(workflows, m) : TRUE
        ELSE IF has_workflows(workflows, target_agent) THEN target_agent
        ELSE NoValue

NoDecision ==
    [called |-> FALSE, confidence |-> NoConfidence, intent |-> NoValue, message |-> "Hello",
     threshold |-> 0, refreshed |-> FALSE, workflows |-> EmptyCache, result |-> NoValue]

DInit == decision = NoDecision

\* HandoffManager.should_handoff: the registry is refreshed (line 245) only when
\* the confidence reaches the threshold
ShouldHandoff ==
    /\ pending = <<>>
    /\ \E confidence \in Confidences, intent \in IntentTypes, m \in UserMessages,
          confidence_threshold \in Thresholds, r \in RefreshResults :
         LET refreshed == ~below_threshold(get_confidence(confidence), confidence_threshold)
             workflows == IF refreshed THEN r.ret ELSE n8n_workflows_cache
             result == should_handoff(confidence, intent, m, confidence_threshold, workflows)
         IN
         /\ n8n_workflows_cache' = IF refreshed THEN r.cache ELSE n8n_workflows_cache
         /\ last_workflow_refresh' = IF refreshed THEN r.last ELSE last_workflow_refresh
         /\ decision' = [called |-> TRUE, confidence |-> confidence, intent |-> intent,
                         message |-> m, threshold |-> confidence_threshold,
                         refreshed |-> refreshed, workflows |-> workflows,
                         result |-> result]
         /\ ret' = Return("should_handoff", result # NoValue, 0, result, NoValue)
    /\ UNCHANGED <<now, ticks, active_handoffs, handoff_history, next_uuid, pending,
                   refresh_log>>

(* ------------------------- turn coordinator --------------------------- *)
\* process_bi_request calls the model makes
MaxTurns == 2

\* the inactivity TTL of conversation context, in seconds
SessionTTL == 3600

\* the session ids, user texts and turn numbers of the calls
CoordSessionIds == {"s1", "s2"}
CoordMessages == {"Start metadata discovery", "Tell me a story", "Hello"}
Turns == {0, 1}

\* any(keyword in message_lower for keyword in keywords)
AnyKeyword(keywords, message_lower) == \E k \in keywords : Has(k, message_lower)

\* _analyze_bi_intent, lines 203-247: the WorkflowSequenceType the text implies
implied_sequence(message_lower) ==
    IF AnyKeyword({"metadata discovery", "discovery", "inception", "glossary",
                   "business concept"}, message_lower)
    THEN "metadata_discovery"
    ELSE IF AnyKeyword({"data cataloging", "catalog", "physical metadata",
                        "schema attribution"}, message_lower)
    THEN "data_cataloging"
    ELSE IF AnyKeyword({"data vault", "vault", "database assistant", "hub", "link",
                        "satellite"}, message_lower)
    THEN "data_vault_generation"
    ELSE IF AnyKeyword({"business intelligence", "bi", "story", "analysis",
                        "insights"}, message_lower)
    THEN "business_intelligence"
    ELSE IF AnyKeyword({"full pipeline", "complete workflow", "all agents",
                        "end to end"}, message_lower)
    THEN "full_bi_pipeline"
    ELSE NoValue

\* the sequence each modelled text implies, computed once
ImpliedSequence == [m \in CoordMessages |-> implied_sequence(Lower(Chars(m)))]

\* WorkflowSequenceType.X.value: the str of the member, which is not the member
SequenceTypeValue(member) ==
    CASE member = "metadata_discovery" -> "'metadata_discovery'"
      [] member = "data_cataloging" -> "'data_cataloging'"
      [] member = "data_vault_generation" -> "'data_vault_generation'"
      [] member = "business_intelligence" -> "'business_intelligence'"
      [] member = "full_bi_pipeline" -> "'full_bi_pipeline'"

\* _analyze_bi_intent, lines 147-255: the chat completion answers or raises; the
\* keywords are looked at only after it answered. "workflow_sequence" carries
\* the member's .value
analyze_bi_intent(m, llm) ==
    IF llm = "raise"
    THEN [workflow_sequence |-> NoValue, response |-> "rephrase", phase |-> "error"]
    ELSE IF ImpliedSequence[m] # NoValue
    THEN [workflow_sequence |-> SequenceTypeValue(ImpliedSequence[m]),
          response |-> "llm_text", phase |-> ImpliedSequence[m]]
    ELSE [workflow_sequence |-> NoValue, response |-> "llm_text", phase |-> "guidance"]

\* WorkflowOrchestrationEngine.execute_workflow_sequence as one call: the
\* response and the execute_workflow calls made. A request whose requests are
\* prepared has one step, so one webhook outcome is all a run consumes.
run_sequence(request, registry, wo) ==
    LET agent_sequence == workflow_sequences(request.sequence_type)
        prepared == prepare_requests(request, agent_sequence)
    IN  IF agent_sequence = <<>> \/ prepared.raised
        THEN [response |-> SequenceResponse(FALSE, <<>>, <<<<"exception", "AttributeError">>>>),
              calls |-> <<>>]
        ELSE LET workflow_results ==
                     [i \in 1..Len(prepared.requests) |->
                         execute_workflow(prepared.requests[i].agent_type, registry, wo)]
                 errors == collect_errors(workflow_results)
             IN  [response |-> SequenceResponse(sequence_success(errors),
                                                workflow_results, errors),
                  calls |-> [i \in 1..Len(prepared.requests) |->
                                WorkflowCall(prepared.requests[i], registry, wo)]]

\* _create_sequence_summary, lines 308-326
create_sequence_summary(sequence_result) ==
    IF ~sequence_result.success THEN "sequence_failed" ELSE "sequence_succeeded"

\* EnhancedAgentCoordinator._execute_workflow_sequence, lines 257-306: the
\* request is sequential and names the sequence by the value it was given
execute_workflow_sequence(sequence_type, session_id, registry, wo) ==
    LET sequence_request == [sequence_type |-> sequence_type, payload |-> "payload",
                             session_id |-> session_id, context |-> NoValue,
                             parallel_execution |-> FALSE]
        run == run_sequence(sequence_request, registry, wo)
    IN  [success |-> run.response.success,
         summary |-> create_sequence_summary(run.response),
         results |-> run.response.results,
         errors |-> run.response.errors,
         calls |-> run.calls]

\* line 75: the session id is in the store
has_session_never(contexts, session_id) == FALSE
has_session(contexts, session_id) == session_id \in DOMAIN contexts

\* lines 121, 132, 143: the turn of the result
next_turn_same(turn) == turn
next_turn(turn) == turn + 1

\* lines 76-84: a new session context
NewContext(session_id, t) ==
    [session_id |-> session_id, created_at |-> t, messages |-> <<>>, turn |-> 0,
     workflow_history |-> <<>>]

NoTurn ==
    [called |-> FALSE, session_id |-> "s1", message |-> "Hello", turn_in |-> 0,
     status |-> NoValue, response |-> NoValue, turn |-> 0, workflow_sequence |-> NoValue,
     results |-> <<>>, calls |-> <<>>, created |-> FALSE, idle |-> 0]

CInit ==
    /\ session_contexts = <<>>
    /\ sent = [s \in CoordSessionIds |-> <<>>]
    /\ turn_result = NoTurn

\* the turns processed so far
TurnsSoFar == Len(sent["s1"]) + Len(sent["s2"])

\* the time of the last message of a session context
LastActive(context) ==
    IF context.messages = <<>> THEN context.created_at
    ELSE context.messages[Len(context.messages)].timestamp

\* EnhancedAgentCoordinator.process_bi_request, lines 71-145. The calls it makes
\* catch their own exceptions, so the handler of line 136 is not entered.
ProcessBiRequest ==
    /\ TurnsSoFar < MaxTurns
    /\ \E message \in CoordMessages, session_id \in CoordSessionIds, turn \in Turns,
          llm \in {"ok", "raise"}, wo \in WebhookOutcomes :
         LET known == has_session(session_contexts, session_id)
             before == IF known THEN session_contexts[session_id]
                       ELSE NewContext(session_id, now)
             logged == [before EXCEPT
                          !.turn = turn,
                          !.messages = Append(@, [content |-> message, turn |-> turn,
                                                  timestamp |-> now])]
             intent_analysis == analyze_bi_intent(message, llm)
             sequence_result ==
                 execute_workflow_sequence(intent_analysis.workflow_sequence, session_id,
                                           workflow_registry, wo)
             executed == intent_analysis.workflow_sequence # NoValue
             after == IF executed
                      THEN [logged EXCEPT !.workflow_history =
                               Append(@, [sequence |-> intent_analysis.workflow_sequence,
                                          success |-> sequence_result.success,
                                          turn |-> turn])]
                      ELSE logged
         IN
         /\ session_contexts' =
                [s \in DOMAIN session_contexts \cup {session_id} |->
                    IF s = session_id THEN after ELSE session_contexts[s]]
         /\ sent' = [sent EXCEPT ![session_id] = Append(@, message)]
         /\ turn_result' =
                [called |-> TRUE, session_id |-> session_id, message |-> message,
                 turn_in |-> turn,
                 status |-> IF executed THEN "workflow_executed" ELSE "guidance_provided",
                 response |-> IF executed THEN sequence_result.summary
                              ELSE intent_analysis.response,
                 turn |-> next_turn(turn),
                 workflow_sequence |-> intent_analysis.workflow_sequence,
                 results |-> IF executed THEN sequence_result.results ELSE <<>>,
                 calls |-> IF executed THEN sequence_result.calls ELSE <<>>,
                 created |-> ~known,
                 idle |-> IF known THEN now - LastActive(before) ELSE 0]

(* ----------------------- refresh, step by step ------------------------ *)
\* what a reader of self.n8n_workflows_cache gets while a refresh is at pc
visible_cache_in_place(cache, local, pc) == IF pc = "idle" THEN cache ELSE local
visible_cache(cache, local, pc) == cache

NoJob == [previous |-> EmptyCache, complete |-> EmptyCache]

RInit ==
    /\ refresh_pc = "idle"
    /\ organized_workflows = EmptyCache
    /\ refresh_job = NoJob
    /\ observed = [read |-> FALSE, during |-> "idle", value |-> EmptyCache,
                   previous |-> EmptyCache, complete |-> EmptyCache]

\* refresh_n8n_workflows, lines 50-67: the TTL test, the fetch, and the empty
\* local organized_workflows; a served cache or a failed fetch ends the call
RefreshFetch ==
    /\ refresh_pc = "idle"
    /\ \E force \in BOOLEAN, f \in FetchResults :
         IF ~CacheIsFresh(last_workflow_refresh, now, force) /\ f.built
         THEN /\ refresh_pc' = "organizing"
              /\ organized_workflows' = EmptyCache
              /\ refresh_job' = [previous |-> n8n_workflows_cache, complete |-> f.organized]
         ELSE UNCHANGED <<refresh_pc, organized_workflows, refresh_job>>
    /\ UNCHANGED <<hvars, observed>>

\* lines 77-97: the entry is classified and appended to the local mapping
RefreshOrganize ==
    /\ refresh_pc = "organizing"
    /\ organized_workflows' = refresh_job.complete
    /\ refresh_pc' = "organized"
    /\ UNCHANGED <<hvars, refresh_job, observed>>

\* lines 100-103: the cache is replaced and the time recorded
RefreshAssign ==
    /\ refresh_pc = "organized"
    /\ n8n_workflows_cache' = organized_workflows
    /\ last_workflow_refresh' = now
    /\ refresh_pc' = "idle"
    /\ UNCHANGED <<now, ticks, active_handoffs, handoff_history, next_uuid, pending,
                   ret, refresh_log, organized_workflows, refresh_job, observed>>

\* a reader of the cache, at any point of a refresh
ReadCache ==
    /\ observed' =
           [read |-> TRUE, during |-> refresh_pc,
            value |-> visible_cache(n8n_workflows_cache, organized_workflows, refresh_pc),
            previous |-> IF refresh_pc = "idle" THEN n8n_workflows_cache
                         ELSE refresh_job.previous,
            complete |-> IF refresh_pc = "idle" THEN n8n_workflows_cache
                         ELSE refresh_job.complete]
    /\ UNCHANGED <<hvars, refresh_pc, organized_workflows, refresh_job>>

(* ------------------------- invocation target -------------------------- *)
\* nodes a workflow definition holds at most
MaxNodes == 2

\* str.startswith
StartsWith(k, s) == Len(k) <= Len(s) /\ SubSeq(s, 1, Len(k)) = k

\* the nodes of a definition: webhook nodes with the forms of path line 169-176
\* tells apart and with or without a webhookId, and a node of another type
Nodes ==
    [type : {"n8n-nodes-base.webhook"}, path : {"", "hook", "/hook", "http://host/hook"},
     webhookId : {NoValue, "id1"}]
    \cup [type : {"n8n-nodes-base.set"}, path : {""}, webhookId : {NoValue}]

\* _extract_webhook_path, lines 163-180, for one node: the address it yields,
\* <<>> when the loop goes on to the next node. An address is written without
\* the host https://n8n.casamccartney.link: <<"url", p>> is p itself,
\* <<"base", p>> the host followed by p, <<"webhook", p>> the host's /webhook/p.
node_webhook_path(node) ==
    IF node.type # "n8n-nodes-base.webhook" THEN <<>>
    ELSE IF node.path # ""
    THEN IF StartsWith(Chars("http"), Chars(node.path)) THEN <<"url", node.path>>
         ELSE IF StartsWith(Chars("/"), Chars(node.path)) THEN <<"base", node.path>>
         ELSE <<"webhook", node.path>>
    ELSE IF node.webhookId # NoValue THEN <<"webhook", node.webhookId>>
    ELSE <<>>

\* node_webhook_path of every node, computed once
NodeWebhookPath == [node \in Nodes |-> node_webhook_path(node)]

\* the nodes that yield an address, by index
webhook_hits(nodes) == { i \in 1..Len(nodes) : NodeWebhookPath[nodes[i]] # <<>> }

\* HandoffManager._extract_webhook_path for a definition with its nodes: the
\* first node that yields an address decides, then the name, then the id
extract_webhook_path_with_nodes(workflow) ==
    LET found == FirstWhere(workflow.nodes, webhook_hits(workflow.nodes)) IN
    IF found # <<>>
    THEN NodeWebhookPath[found[1]]
    ELSE extract_webhook_path(workflow)

\* the names of the definitions resolved
DefinitionNames == {"Gerald Handoff", "Home Automation Advisor",
                    "Home Automation Handoff", "Task Organizer"}

\* the well-formed workflow definitions the resolver is given
Definitions ==
    [id : {"w1", "w6"}, name : DefinitionNames,
     nodes : UNION { [1..n -> Nodes] : n \in 0..MaxNodes }]

NoDefinition == [id |-> "w1", name |-> "Task Organizer", nodes |-> <<>>]

\* no call yet, workflow being the definition the call will be given
NotResolved(workflow) ==
    [called |-> FALSE, workflow |-> workflow, webhook_path |-> <<>>,
     assigned_agent |-> NoValue]

WInit == resolved = NotResolved(NoDefinition)

\* the resolver's input is any of the definitions
WInitAny == resolved \in { NotResolved(workflow) : workflow \in Definitions }

\* the _extract_webhook_path call, with the type _map_workflow_to_agent
\* declares for the same definition (lines 78 and 86)
ExtractWebhookPath ==
    /\ ~resolved.called
    /\ resolved' = [resolved EXCEPT
                       !.called = TRUE,
                       !.webhook_path = extract_webhook_path_with_nodes(resolved.workflow),
                       !.assigned_agent = AgentOfName[resolved.workflow.name]]
    /\ UNCHANGED <<hvars, evars, dvars, cvars, rvars, uvars>>

(* -------------------------- document upload --------------------------- *)
\* _split_text_into_chunks: the default chunk_size and overlap
chunk_size == 1000
overlap == 200

\* len(chunks) is counted modulo this number plus one
MaxChunks == 12

\* the lengths of the texts uploaded: empty, below, at and above the overlap
\* and the chunk size
TextLengths == {0, 1, 199, 200, 201, 999, 1000, 1001, 1500, 2500}

\* lines 513-515: end for the chunk that begins at start
chunk_end(from, length) ==
    IF from + chunk_size > length THEN length ELSE from + chunk_size

\* lines 518-527: where the chunk can end after the search for a line break or
\* a sentence end in its second half; the earliest such end and none are taken
natural_ends(from, end, length) ==
    IF end < length
    THEN {end, from + (chunk_size \div 2) + 2}
    ELSE {end}

\* line 530
next_start(end) == end - overlap

UInit ==
    /\ split_pc = "idle"
    /\ text_length = 0
    /\ start = 0
    /\ chunks = 0
    /\ upload_status = NoValue

\* process_document, lines 394-426, for a supported file of an existing
\* session, and _split_text_into_chunks, lines 508-510
ProcessDocument ==
    /\ split_pc # "loop"
    /\ \E length \in TextLengths : text_length' = length
    /\ start' = 0
    /\ chunks' = 0
    /\ split_pc' = "loop"
    /\ upload_status' = NoValue
    /\ UNCHANGED <<hvars, evars, dvars, cvars, rvars, wvars>>

\* _split_text_into_chunks, lines 512-530: one pass of the while loop
SplitStep ==
    /\ split_pc = "loop"
    /\ start < text_length
    /\ \E end \in natural_ends(start, chunk_end(start, text_length), text_length) :
         start' = next_start(end)
    /\ chunks' = (chunks + 1) % (MaxChunks + 1)
    /\ UNCHANGED <<split_pc, text_length, upload_status>>
    /\ UNCHANGED <<hvars, evars, dvars, cvars, rvars, wvars>>

\* _split_text_into_chunks, lines 512 and 532, and process_document, lines
\* 428-487: the loop ends; storing a chunk can fail, and there is a chunk to
\* store when a pass of the loop has run, that is when the text is not empty
ProcessDocumentReturn ==
    /\ split_pc = "loop"
    /\ ~(start < text_length)
    /\ split_pc' = "done"
    /\ upload_status' \in IF text_length = 0 THEN {"success"} ELSE {"success", "error"}
    /\ UNCHANGED <<text_length, start, chunks>>
    /\ UNCHANGED <<hvars, evars, dvars, cvars, rvars, wvars>>

(* --------------------------- specifications --------------------------- *)
Init == HInit /\ EInit /\ DInit /\ CInit /\ RInit /\ WInit /\ UInit

\* the handoff manager; the registry is refreshed by the calls themselves
Next ==
    \/ Tick({TTL}) /\ UNCHANGED <<evars, dvars, cvars, rvars, wvars, uvars>>
    \/ InitiateHandoff /\ UNCHANGED <<evars, dvars, cvars, rvars, wvars, uvars>>
    \/ ExecuteDispatch /\ UNCHANGED <<evars, dvars, cvars, rvars, wvars, uvars>>
    \/ ExecuteReturn /\ UNCHANGED <<evars, dvars, cvars, rvars, wvars, uvars>>
    \/ CompleteHandoff /\ UNCHANGED <<evars, dvars, cvars, rvars, wvars, uvars>>

Spec == Init /\ [][Next]_vars

\* the workflow registry alone
NextRegistry ==
    \/ Tick({TTL - 1, TTL, SecondsPerDay}) /\ UNCHANGED <<evars, dvars, cvars, rvars, wvars, uvars>>
    \/ Refresh /\ UNCHANGED <<evars, dvars, cvars, rvars, wvars, uvars>>

SpecRegistry == Init /\ [][NextRegistry]_vars

\* the orchestration engine
NextEngine ==
    \/ RegisterWorkflow /\ UNCHANGED <<hvars, dvars, cvars, rvars, wvars, uvars>>
    \/ SequenceStart /\ UNCHANGED <<hvars, dvars, cvars, rvars, wvars, uvars>>
    \/ SequenceStep /\ UNCHANGED <<hvars, dvars, cvars, rvars, wvars, uvars>>

SpecEngine == Init /\ [][NextEngine]_vars

\* the handoff decision
NextDecision ==
    \/ Tick({TTL}) /\ UNCHANGED <<evars, dvars, cvars, rvars, wvars, uvars>>
    \/ ShouldHandoff /\ UNCHANGED <<evars, cvars, rvars, wvars, uvars>>

SpecDecision == Init /\ [][NextDecision]_vars

\* the turn coordinator
NextCoordinator ==
    \/ Tick({SessionTTL + 1}) /\ UNCHANGED <<evars, dvars, cvars, rvars, wvars, uvars>>
    \/ ProcessBiRequest /\ UNCHANGED <<hvars, evars, dvars, rvars, wvars, uvars>>

SpecCoordinator == Init /\ [][NextCoordinator]_vars

\* a refresh with concurrent readers
NextConcurrentRefresh ==
    \/ RefreshFetch /\ UNCHANGED <<evars, dvars, cvars, wvars, uvars>>
    \/ RefreshOrganize /\ UNCHANGED <<evars, dvars, cvars, wvars, uvars>>
    \/ RefreshAssign /\ UNCHANGED <<evars, dvars, cvars, wvars, uvars>>
    \/ ReadCache /\ UNCHANGED <<evars, dvars, cvars, wvars, uvars>>

SpecConcurrentRefresh == Init /\ [][NextConcurrentRefresh]_vars

\* the invocation target of a workflow definition
NextResolve == ExtractWebhookPath

InitResolve == HInit /\ EInit /\ DInit /\ CInit /\ RInit /\ WInitAny /\ UInit

SpecResolve == InitResolve /\ [][NextResolve]_vars

\* a document upload; the loop of the split runs on as long as it can
NextUpload ==
    \/ ProcessDocument
    \/ SplitStep
    \/ ProcessDocumentReturn

SpecUpload ==
    Init /\ [][NextUpload]_vars /\ WF_vars(SplitStep) /\ WF_vars(ProcessDocumentReturn)

(* ------------------------------ claims -------------------------------- *)
AllHandoffs == active_handoffs \cup handoff_history

\* the status of handoff h, given the two collections
StatusIn(active, history, h) == (Get(active \cup history, h)).status

\* the lifecycle of a handoff record: a move along
\* Pending -> InProgress -> WorkflowExecuting -> Completed | Failed | Cancelled,
\* WorkflowExecuting being optional
AllowedMove(s, t) ==
    \/ s = t
    \/ s = PENDING /\ t = IN_PROGRESS
    \/ s = IN_PROGRESS /\ t \in {WORKFLOW_EXECUTING} \cup TerminalStatuses
    \/ s = WORKFLOW_EXECUTING /\ t \in TerminalStatuses

\* C1: every record's status only moves along Pending -> InProgress ->
\* WorkflowExecuting -> {Completed | Failed | Cancelled}; a record starts in
\* Pending or InProgress, and a Completed, Failed or Cancelled record never
\* gets another status.
C1_StatusLifecycle ==
    [][\A h \in HandoffIds :
          /\ (h \in Ids(AllHandoffs)) =>
                /\ h \in Ids(active_handoffs' \cup handoff_history')
                /\ AllowedMove(StatusIn(active_handoffs, handoff_history, h),
                               StatusIn(active_handoffs', handoff_history', h))
          /\ (h \notin Ids(AllHandoffs) /\ h \in Ids(active_handoffs' \cup handoff_history')) =>
                StatusIn(active_handoffs', handoff_history', h) \in {PENDING, IN_PROGRESS}
      ]_vars

\* C2: a record whose status is Completed, Failed or Cancelled is in the
\* history collection and not in the active collection.
C2_TerminalInHistory ==
    \A r \in AllHandoffs :
        r.status \in TerminalStatuses =>
            /\ r.handoff_id \in Ids(handoff_history)
            /\ r.handoff_id \notin Ids(active_handoffs)

\* C3: a registered sequence of N steps run with parallel_execution = false
\* returns exactly N results, whose agent types are the declared steps in order.
C3_SequentialResultPerStep ==
    (/\ seq_pc = "done"
     /\ seq_request.sequence_type \in SequenceTypes
     /\ ~seq_request.parallel_execution)
    => LET declared == workflow_sequences(seq_request.sequence_type) IN
       /\ Len(seq_response.results) = Len(declared)
       /\ \A i \in 1..Len(declared) : seq_response.results[i].agent_type = declared[i]

AllSucceeded(results) == \A i \in 1..Len(results) : results[i].success

\* C4 as claimed: on every return path, success is true if and only if every
\* result in the results list has success = true.
C4_SuccessIffAllSucceeded ==
    seq_pc = "done" => (seq_response.success <=> AllSucceeded(seq_response.results))

\* C4 as amended: on every return path, success is true if and only if the
\* results list is not empty and every result in it has success = true; on the
\* unknown-sequence and exception paths the list is empty and success is false.
C4_SuccessIffNonEmptyAllSucceeded ==
    seq_pc = "done" =>
        (seq_response.success <=>
            (seq_response.results # <<>> /\ AllSucceeded(seq_response.results)))

\* C4 witnesses: a run that returned with a failing step
C4_Witness ==
    /\ seq_pc = "done"
    /\ seq_response.results # <<>>
    /\ ~AllSucceeded(seq_response.results)
    /\ ~seq_response.success

\* a direct refresh call was made in this step
RefreshCalled == refresh_log'.seq # refresh_log.seq

\* C5: two refresh(force_refresh = False) calls made within the TTL window
\* issue at most one fetch in total and the second returns what the first
\* returned, whatever the first call's fetch answered.
C5_OneFetchPerWindow ==
    [][(/\ RefreshCalled
        /\ refresh_log.called
        /\ ~refresh_log.force
        /\ ~refresh_log'.force
        /\ refresh_log'.at - refresh_log.at < TTL)
       => /\ ~(refresh_log.fetched /\ refresh_log'.fetched)
          /\ refresh_log'.ret = refresh_log.ret
      ]_vars

\* C6: when initiate_handoff has created a record for an auto-triggering type,
\* the record's status is Completed or Failed as the call returns.
C6_AutoTriggerSettled ==
    (/\ ret.op = "initiate"
     /\ ret.success
     /\ (Get(AllHandoffs, ret.handoff_id)).target_agent_type \in AutoTriggerTypes)
    => (Get(AllHandoffs, ret.handoff_id)).status \in {COMPLETED, FAILED}

\* C7: complete_handoff with an id that is not in the active collection (never
\* created, or completed before) returns the not-found failure and leaves the
\* active and the history collection as they were.
C7_CompleteUnknownFails ==
    [][(ret'.op = "complete" /\ ret'.handoff_id \notin Ids(active_handoffs))
       => /\ ~ret'.success
          /\ ret'.error = "not_found"
          /\ UNCHANGED <<active_handoffs, handoff_history>>
      ]_vars

\* C7 witness: a second complete_handoff on a completed id has failed
C7_Witness ==
    /\ ret.op = "complete"
    /\ ~ret.success
    /\ ret.handoff_id \in Ids(handoff_history)

\* C8: every id initiate_handoff has created is in exactly one of the active
\* and the history collection, and complete_handoff on an active id moves its
\* record to history with status Completed.
C8_ExactlyOneCollection ==
    [][/\ \A h \in HandoffIds :
             /\ h < next_uuid' =>
                   (h \in Ids(active_handoffs')) # (h \in Ids(handoff_history'))
             /\ h >= next_uuid' => h \notin Ids(active_handoffs' \cup handoff_history')
       /\ (ret'.op = "complete" /\ ret'.handoff_id \in Ids(active_handoffs))
             => /\ ret'.handoff_id \notin Ids(active_handoffs')
                /\ ret'.handoff_id \in Ids(handoff_history')
                /\ (Get(handoff_history', ret'.handoff_id)).status = COMPLETED
      ]_vars

\* C8 witness: a created record has been completed and is in history
C8_Witness ==
    /\ ret.op = "complete"
    /\ ret.success
    /\ ret.handoff_id \in Ids(handoff_history)
    /\ ret.handoff_id \notin Ids(active_handoffs)

\* C9: when the fetch of a refresh fails (an error status or an exception), the
\* call returns the cached mapping and leaves the cache and the timestamp alone.
C9_FailedFetchKeepsCache ==
    [][(/\ RefreshCalled
        /\ refresh_log'.fetched
        /\ FetchFailed(refresh_log'.outcome))
       => /\ UNCHANGED <<n8n_workflows_cache, last_workflow_refresh>>
          /\ refresh_log'.ret = n8n_workflows_cache
      ]_vars

\* the mapping the classification rules give for a snapshot: every entry whose
\* name matches a rule, under the type of the first rule that matches
ExpectedMapping(snapshot) ==
    [t \in AgentTypes |->
        LET OfType(w) == AgentOfName[w.name] = t
            matching == SelectSeq(snapshot, OfType)
        IN  [i \in 1..Len(matching) |-> Handle(matching[i])]]

\* C10: after a refresh whose fetch succeeded with a snapshot, the cache holds
\* exactly the snapshot's entries that match a rule, each under its type, and
\* nothing of an earlier snapshot.
C10_CacheIsClassifiedSnapshot ==
    (/\ refresh_log.called
     /\ refresh_log.fetched
     /\ refresh_log.outcome.kind = "response"
     /\ refresh_log.outcome.status = 200
     /\ refresh_log.outcome.body = "json")
    => n8n_workflows_cache = ExpectedMapping(refresh_log.outcome.data)

\* C11: should_handoff answers none whenever the signal's confidence (0 when
\* the signal has none) is strictly below the threshold, whatever the intent,
\* the user text and the registry.
C11_BelowThresholdIsNone ==
    (decision.called /\ get_confidence(decision.confidence) < decision.threshold)
    => decision.result = NoValue

\* C11 witness: a signal without confidence, with a direct request naming a
\* registered workflow and an intent whose type has handles, is answered none
C11_Witness ==
    /\ decision.called
    /\ decision.confidence = NoConfidence
    /\ decision.threshold = 70
    /\ decision.intent = "data_analysis"
    /\ decision.message = "Please run Gerald Handoff"
    /\ n8n_workflows_cache["data_analysis"] # <<>>
    /\ decision.result = NoValue

\* C12: a capability type answered by should_handoff, by the name override or
\* by the intent mapping, has at least one handle in the mapping the decision
\* was taken on.
C12_AnsweredTypeHasHandles ==
    (decision.called /\ decision.result # NoValue)
    => decision.workflows[decision.result] # <<>>

\* C12 witnesses: one answer by the name override, against the intent, and one
\* refusal of an intent whose type has no handle
C12_Witness ==
    /\ decision.called
    /\ decision.intent = "home_automation"
    /\ decision.message = "Execute the task organizer workflow"
    /\ decision.result = "task_management"
    /\ decision.workflows["task_management"] # <<>>
    /\ decision.workflows["home_automation"] = <<>>

\* the declared steps of the run's sequence
Declared == workflow_sequences(seq_request.sequence_type)

\* a run of a registered sequence has been started
RegisteredRun == seq_request.sequence_type \in SequenceTypes

\* C13: a run for a sequence name that is not registered returns at once with
\* success = false, no results and exactly one error, and calls no capability.
C13_UnknownSequenceFails ==
    (seq_request # NoRequest /\ ~RegisteredRun)
    => /\ seq_pc = "done"
       /\ ~seq_response.success
       /\ seq_response.results = <<>>
       /\ Len(seq_response.errors) = 1
       /\ seq_results = <<>>
       /\ seq_calls = <<>>

\* C13 witness: a parallel run for an unknown name has returned a failure
C13_Witness ==
    /\ seq_pc = "done"
    /\ seq_request.sequence_type = "unknown"
    /\ seq_request.parallel_execution
    /\ ~seq_response.success
    /\ Len(seq_response.errors) = 1

\* C14: in a sequential run of a registered sequence every declared step is
\* invoked exactly once, in declared order, whatever steps fail.
C14_EveryStepInvokedOnce ==
    (seq_pc = "done" /\ RegisteredRun /\ ~seq_request.parallel_execution)
    => /\ Len(seq_calls) = Len(Declared)
       /\ \A i \in 1..Len(Declared) : seq_calls[i].agent_type = Declared[i]

\* the failing results, in result order
Failing(results) == SelectSeq(results, LAMBDA r : ~r.success)

\* C15: the errors of a returned run of a registered sequence are exactly one
\* entry per failing result, in step order, each naming the step's type and
\* error, with no entry for a succeeding step; in both modes.
C15_OneErrorPerFailingStep ==
    (seq_pc = "done" /\ RegisteredRun)
    => LET failing == Failing(seq_response.results) IN
       /\ Len(seq_response.errors) = Len(failing)
       /\ \A k \in 1..Len(failing) :
            seq_response.errors[k] =
                <<"Workflow", failing[k].agent_type, "failed", failing[k].error>>

\* the declared types without a workflow id in the registry
MissingHandle == { i \in 1..Len(Declared') : workflow_registry[Declared'[i]] = "" }

\* C16: a sequential run of a two-step sequence, exactly one of whose types has
\* no handle, returns success = false with two results, the one of the type
\* without handle failed, and an error naming that type.
C16_MissingHandleIsAFailedStep ==
    [][(/\ seq_pc # "done" /\ seq_pc' = "done"
        /\ seq_request'.sequence_type \in SequenceTypes
        /\ ~seq_request'.parallel_execution
        /\ Len(Declared') = 2
        /\ Cardinality(MissingHandle) = 1)
       => LET m == CHOOSE i \in MissingHandle : TRUE IN
          /\ ~seq_response'.success
          /\ Len(seq_response'.results) = 2
          /\ ~seq_response'.results[m].success
          /\ seq_response'.results[m].agent_type = Declared'[m]
          /\ \E k \in 1..Len(seq_response'.errors) :
                seq_response'.errors[k][2] = Declared'[m]
      ]_vars

\* C17: in a sequential run the context of step N > 1 is built only when the
\* result of step N-1 exists.
C17_ContextBuiltAfterPreviousResult ==
    (RegisteredRun /\ ~seq_request.parallel_execution)
    => \A k \in 1..Len(seq_builds) :
          seq_builds[k].step > 1 => seq_builds[k].results_ready >= seq_builds[k].step - 1

\* the previous-step results a dispatched payload carries
carried_results(call) ==
    IF "previous_results" \in DOMAIN call.payload
    THEN call.payload.previous_results
    ELSE <<>>

\* C18: in a sequential run the request dispatched for step N carries the
\* result payloads of steps 1..N-1, in order; step 1 carries none.
C18_DispatchCarriesPreviousResults ==
    (seq_pc = "done" /\ RegisteredRun /\ ~seq_request.parallel_execution)
    => \A n \in 1..Len(Declared) :
          /\ Len(seq_calls) >= n
          /\ seq_calls[n].dispatched =>
                carried_results(seq_calls[n]) =
                    [j \in 1..(n - 1) |-> seq_response.results[j].result]

\* C19: in a parallel run every step gets a request with the base payload and
\* context of the run, and no request is built from another step's data.
C19_ParallelStepsShareBasePayload ==
    (RegisteredRun /\ seq_request.parallel_execution)
    => /\ \A k \in 1..Len(seq_builds) : ~seq_builds[k].reads_previous
       /\ Len(seq_requests) = Len(Declared)
       /\ \A i \in 1..Len(seq_requests) :
            /\ seq_requests[i].payload = seq_request.payload
            /\ seq_requests[i].context = base_context(seq_request)

\* C20: a parallel run of N steps returns only when all N steps have finished,
\* with exactly N results, the i-th being that of declared step i.
C20_ParallelBarrierAndIndex ==
    (seq_pc = "done" /\ RegisteredRun /\ seq_request.parallel_execution)
    => /\ Len(seq_results) = Len(Declared)
       /\ Len(seq_response.results) = Len(Declared)
       /\ \A i \in 1..Len(Declared) : seq_response.results[i].agent_type = Declared[i]

\* the mapping lists an active handle for type t
HasActiveHandle(workflows, t) ==
    \E i \in 1..Len(workflows[t]) : workflows[t][i].active

\* C21: initiate_handoff for a type without an active handle (no handle, or
\* only inactive ones) is rejected and creates no record: every record that
\* enters the active collection is of a type with an active handle in the
\* mapping the call refreshed.
C21_NoActiveHandleIsRejected ==
    [][\A r \in active_handoffs' :
          r.handoff_id \notin Ids(active_handoffs) =>
              /\ HasActiveHandle(n8n_workflows_cache', r.target_agent_type)
              /\ ret'.success
      ]_vars

\* C22: every process_bi_request call returns a result with a status, a
\* response and turn = input turn + 1, whatever failed inside it.
C22_TurnAlwaysAnswered ==
    turn_result.called
    => /\ turn_result.status \in {"workflow_executed", "guidance_provided", "error"}
       /\ turn_result.response # NoValue
       /\ turn_result.turn = turn_result.turn_in + 1

\* C22 witness: a turn whose sequence run failed is answered
C22_Witness ==
    /\ turn_result.called
    /\ turn_result.turn_in = 1
    /\ turn_result.workflow_sequence # NoValue
    /\ turn_result.response = "sequence_failed"
    /\ turn_result.turn = 2

\* the user texts of a session context's message log, in order
LoggedMessages(context) == [i \in 1..Len(context.messages) |-> context.messages[i].content]

C24_IdleSessionStartsFresh ==
    (turn_result.called /\ turn_result.idle > SessionTTL)
    => Len(session_contexts[turn_result.session_id].messages) = 1

\* C30: a turn whose intent implies a registered sequence invokes every
\* declared step of it and returns one result per step.
C30_ImpliedPipelineRuns ==
    (turn_result.called /\ turn_result.workflow_sequence # NoValue)
    => LET declared == workflow_sequences(ImpliedSequence[turn_result.message]) IN
       /\ Len(turn_result.calls) = Len(declared)
       /\ \A i \in 1..Len(turn_result.calls) : turn_result.calls[i].agent_type = declared[i]
       /\ Len(turn_result.results) = Len(declared)

\* C25: a capability invocation fails, with an error message, for every
\* non-success status and every transport error, and succeeds for a success
\* status whatever the body: an unparsable body is the payload as it came.
C25_StatusAloneDecidesSuccess ==
    \A i \in 1..Len(seq_calls) :
        seq_calls[i].dispatched =>
            LET wo == seq_calls[i].outcome
                ok == wo.kind = "response" /\ wo.status = 200
            IN  /\ seq_results[i].success <=> ok
                /\ ~seq_results[i].success => seq_results[i].error # NoValue
                /\ (ok /\ wo.body = "text") => seq_results[i].result = "raw_body"

\* C26: a reader of the cache during a refresh sees the complete mapping the
\* refresh started from or the complete mapping it builds, never the mapping
\* under construction; the cache itself changes only by the final assignment.
C26_ReadersSeeCompleteMapping ==
    /\ observed.value \in {observed.previous, observed.complete}
    /\ refresh_pc # "idle" => n8n_workflows_cache = refresh_job.previous

\* C26 witness: a read while the new mapping is under construction, the old and
\* the new mapping being different and neither empty
C26_Witness ==
    /\ observed.read
    /\ observed.during = "organizing"
    /\ observed.previous # EmptyCache
    /\ observed.complete # EmptyCache
    /\ observed.previous # observed.complete
    /\ observed.value = observed.previous

\* C27: a refresh call fetches the catalog exactly when force_refresh is set,
\* no refresh has completed yet, or the last completed refresh is TTL seconds
\* old or older, for every age; it serves the cache only when the last refresh
\* is strictly younger than the TTL.
C27_FetchUnlessYoungerThanTTL ==
    [][RefreshCalled =>
          (refresh_log'.fetched <=>
              \/ refresh_log'.force
              \/ last_workflow_refresh = NoTime
              \/ now - last_workflow_refresh >= TTL)
      ]_vars

\* C28: in a parallel run of N > 1 steps the steps are dispatched
\* concurrently: at some point of the run two or more invocations are in flight.
C28_ParallelStepsOverlap ==
    (/\ seq_pc = "done" /\ RegisteredRun /\ seq_request.parallel_execution
     /\ Len(Declared) > 1)
    => in_flight_peak(seq_calls) >= 2

\* the sum and the maximum of the steps' execution times
StepTimes == [i \in 1..Len(seq_calls) |-> execution_time(seq_calls[i])]
SumOfStepTimes ==
    LET RECURSIVE Sum(_)
        Sum(ts) == IF ts = <<>> THEN 0 ELSE Head(ts) + Sum(Tail(ts))
    IN  Sum(StepTimes)
MaxOfStepTimes ==
    IF StepTimes = <<>> THEN 0
    ELSE CHOOSE t \in {StepTimes[i] : i \in 1..Len(StepTimes)} :
            \A i \in 1..Len(StepTimes) : StepTimes[i] <= t

\* C29: the total time of a parallel run is at most the longest step, and for
\* N > 1 steps of like duration strictly less than the sum of the step times.
C29_ParallelTimeBelowSum ==
    (/\ seq_pc = "done" /\ RegisteredRun /\ seq_request.parallel_execution
     /\ Len(Declared) > 1)
    => /\ total_execution_time(seq_calls) <= MaxOfStepTimes
       /\ total_execution_time(seq_calls) < SumOfStepTimes

\* the failures execute_workflow_handoff returns before it dispatches
PreDispatchFailures ==
    {"not_found", "no_workflows", "no_active_workflows", "workflow_not_found"}

\* w is the first active handle of handles
IsFirstActive(w, handles) ==
    \E i \in 1..Len(handles) :
        /\ handles[i] = w
        /\ handles[i].active
        /\ \A j \in 1..(i - 1) : ~handles[j].active

\* C31: execute_workflow_handoff dispatches to the first active handle of the
\* handoff's target type when no workflow id is given (to the named handle of
\* the type otherwise), and when it fails before dispatching (unknown handoff
\* id, no handles, no active handle, workflow id not among the handles) it
\* invokes nothing and leaves the record and both collections as they were.
C31_FailedExecuteTouchesNothing ==
    [][(pending = <<>> /\ ret'.op = "execute")
       => /\ (ret'.error \in PreDispatchFailures)
                => /\ pending' = <<>>
                   /\ UNCHANGED <<active_handoffs, handoff_history>>
          /\ (ret'.error = "no_active_workflows")
                => LET handles ==
                         n8n_workflows_cache'[(Get(active_handoffs,
                                                   ret'.handoff_id)).target_agent_type]
                   IN  \A i \in 1..Len(handles) : ~handles[i].active
          /\ (pending' # <<>>)
                => LET handles ==
                         n8n_workflows_cache'[(Get(active_handoffs,
                                                   ret'.handoff_id)).target_agent_type]
                       call == pending'[1]
                   IN  /\ ret'.error \notin PreDispatchFailures
                       /\ UNCHANGED handoff_history
                       /\ \E i \in 1..Len(handles) : handles[i] = call.workflow
                       /\ IF call.workflow_arg = NoValue
                          THEN IsFirstActive(call.workflow, handles)
                          ELSE call.workflow.id = call.workflow_arg
      ]_vars

\* C31 witness: an execute_workflow_handoff on an active handoff whose type has
\* handles, none of them active, has failed without dispatching
C31_Witness ==
    /\ ret.op = "execute"
    /\ ret.error = "no_active_workflows"
    /\ ret.handoff_id \in Ids(active_handoffs)
    /\ pending = <<>>

\* C32: a record that is in the history collection stays there with every
\* field as it is, whatever operation (initiate_handoff,
\* execute_workflow_handoff, complete_handoff, a refresh) comes next.
C32_HistoryIsReadOnly ==
    [][\A r \in handoff_history : r \in handoff_history']_vars

\* C32 witness: execute_workflow_handoff was called on the id of a record in
\* history, and was turned away
C32_Witness ==
    /\ ret.op = "execute"
    /\ ret.error = "not_found"
    /\ ret.handoff_id \in Ids(handoff_history)

\* error is present in a WorkflowResponse exactly when it did not succeed
ErrorIffFailed(response) == (response.error # NoValue) <=> ~response.success

literally_named_types(workflows, m) ==
    { t \in AgentTypes :
        \E i \in 1..Len(workflows[t]) :
            IsSubstring(Chars(workflows[t][i].name), Chars(m)) }

\* C34: when the confidence reaches the threshold and the user text contains
\* the display name of a registered handle, should_handoff answers the type of
\* that handle, whatever the intent type maps to, for every user text.
C34_NamedHandleOverridesMapping ==
    (/\ decision.called
     /\ ~below_threshold(get_confidence(decision.confidence), decision.threshold)
     /\ literally_named_types(decision.workflows, decision.message) # {})
    => decision.result \in literally_named_types(decision.workflows, decision.message)

\* the address known for a declared type, <<>> when there is none
well_known_address(agent_type) ==
    IF agent_type = "home_automation" THEN <<"webhook", "chat">> ELSE <<>>

\* C35: the invocation target of a definition is the address of its webhook
\* descriptor when it has one, otherwise the well-known address of its
\* declared type when there is one, otherwise the address built from its id.
C35_TargetFollowsPrecedence ==
    resolved.called =>
        LET workflow == resolved.workflow
            hits == webhook_hits(workflow.nodes)
        IN  resolved.webhook_path =
                IF hits # {}
                THEN NodeWebhookPath[workflow.nodes[CHOOSE i \in hits : \A j \in hits : i <= j]]
                ELSE IF well_known_address(resolved.assigned_agent) # <<>>
                THEN well_known_address(resolved.assigned_agent)
                ELSE <<"webhook", workflow.id>>

\* C39: once the splitting of an uploaded text has begun, it ends, for every
\* text length.
C39_SplittingTerminates ==
    [](split_pc = "loop" => <>(split_pc = "done"))

C37_ExecuteEndsCompletedOrFailed ==
    [][/\ (pending' = <<>>)
            => \A r \in active_handoffs' \cup handoff_history' :
                   r.status # WORKFLOW_EXECUTING
       /\ (pending # <<>> /\ pending' = <<>>)
            => LET r == Get(active_handoffs', pending[1].handoff_id) IN
               /\ ret'.op = "execute"
               /\ r.status \in {COMPLETED, FAILED}
               /\ (r.status = COMPLETED)
                     => /\ ret'.success
                        /\ r.workflow_result # NoValue
                        /\ r.workflow_result = ret'.value
               /\ (r.status = FAILED)
                     => /\ ~ret'.success
                        /\ r.error # NoValue
                        /\ r.error = ret'.error
      ]_vars

\* C37 witness: an execute_workflow_handoff that had dispatched has returned a
\* failure, and the record is Failed
C37_Witness ==
    /\ ret.op = "execute"
    /\ ret.error = "execution_failed"
    /\ pending = <<>>
    /\ ret.handoff_id \in Ids(active_handoffs)
    /\ (Get(active_handoffs, ret.handoff_id)).status = FAILED

\* the results a caller of complete_handoff supplies, None among them
CallerResults == {NoValue, "r2"}

\* C38: complete_handoff stores as final result the workflow result an earlier
\* execute_workflow_handoff recorded when there is one, and a result of the
\* caller only when there is none; the value it returns is the one it stored.
C38_WorkflowResultBecomesFinal ==
    [][(/\ ret'.op = "complete"
        /\ ret'.success
        /\ ret'.handoff_id \in Ids(active_handoffs))
       => LET before == Get(active_handoffs, ret'.handoff_id)
              after == Get(handoff_history', ret'.handoff_id)
          IN  /\ (before.workflow_result # NoValue)
                    => after.final_result = before.workflow_result
              /\ (before.workflow_result = NoValue)
                    => after.final_result \in CallerResults
              /\ ret'.value = after.final_result
      ]_vars

\* C38 witness: a handoff whose workflow had answered was completed, and its
\* final result is the workflow's
C38_Witness ==
    /\ ret.op = "complete"
    /\ ret.success
    /\ ret.handoff_id \in Ids(handoff_history)
    /\ (Get(handoff_history, ret.handoff_id)).workflow_result = "r1"
    /\ (Get(handoff_history, ret.handoff_id)).final_result = "r1"

====
